---------------------------- MODULE Spec2Model ----------------------------
(***************************************************************************)
(* A model of termwiz/src/cell.rs: the attribute record of a terminal cell *)
(* (CellAttributes with its lazily allocated FatAttributes block), the     *)
(* word-sized grapheme storage (TeenyString with its heap fallback) and    *)
(* the column width function (grapheme_column_width).                      *)
(*                                                                         *)
(* Option<T> is modelled as a sequence of length 0 (None) or 1 (Some(x)).  *)
(***************************************************************************)
EXTENDS Integers, Sequences, FiniteSets, TLC

(***************************************************************************)
(* Bounds of the model.                                                    *)
(***************************************************************************)
\* bitfield setter calls in one behaviour of Spec
MaxBitOps == 1
\* set_image / attach_image calls in one behaviour of Spec
MaxAttach == 1
\* attach_image calls in one behaviour of SpecImages
MaxAttachImages == 4
\* characters in an input string of SpecText
MaxChars == 3
\* live TeenyString values (and heap blocks) in SpecText
MaxVals == 2
\* largest width handed to from_str by the caller
MaxWidthArg == 3

\* SpecWidth: the strings are at most MaxWidthChars characters long, or a
\* run of LongRun - 1 or LongRun wide characters
MaxWidthChars == 2

LongRun == 128

None == <<>>

Some(x) == <<x>>

is_none(o) == o = <<>>

is_some(o) == o # <<>>

unwrap(o) == o[1]

(***************************************************************************)
(* 16-bit arithmetic of the `attributes: u16` bitfield.                    *)
(***************************************************************************)
RECURSIVE Pow2(_)
Pow2(n) == IF n = 0 THEN 1 ELSE 2 * Pow2(n - 1)

RECURSIVE BitAndN(_, _, _)
BitAndN(a, b, n) ==
    IF n = 0 \/ a = 0 \/ b = 0 THEN 0
    ELSE (IF a % 2 = 1 /\ b % 2 = 1 THEN 1 ELSE 0)
         + 2 * BitAndN(a \div 2, b \div 2, n - 1)

RECURSIVE BitOrN(_, _, _)
BitOrN(a, b, n) ==
    IF n = 0 THEN 0
    ELSE IF a = 0 THEN b % Pow2(n)
    ELSE IF b = 0 THEN a % Pow2(n)
    ELSE (IF a % 2 = 1 \/ b % 2 = 1 THEN 1 ELSE 0)
         + 2 * BitOrN(a \div 2, b \div 2, n - 1)

\* a & b on u16
BitAnd(a, b) == BitAndN(a, b, 16)

\* a | b on u16
BitOr(a, b) == BitOrN(a, b, 16)

\* !a on u16
BitNot(a) == 65535 - a

\* a << n on u16
Shl(a, n) == (a * Pow2(n)) % 65536

\* a >> n on u16
Shr(a, n) == a \div Pow2(n)

(***************************************************************************)
(* Colors.  ColorAttribute has Default, PaletteIndex(idx) and further      *)
(* variants that SmallColor cannot hold (matched by the catch-all arm of   *)
(* set_foreground / set_background); the further variants are modelled by  *)
(* the kind "TrueColor".                                                   *)
(***************************************************************************)
ColorDefault == [kind |-> "Default", v |-> 0]

PaletteIndex(idx) == [kind |-> "PaletteIndex", v |-> idx]

TrueColor(rgb) == [kind |-> "TrueColor", v |-> rgb]

\* impl Into<ColorAttribute> for SmallColor
SmallColorInto(c) ==
    IF c.kind = "Default" THEN ColorDefault ELSE PaletteIndex(c.v)

\* the colors the setters are called with
ColorArgs == {ColorDefault, PaletteIndex(1), TrueColor(1)}

\* the hyperlinks set_hyperlink is called with
LinkArgs == {None, Some("L1"), Some("L2")}

(***************************************************************************)
(* enum discriminants (#[repr(u16)])                                       *)
(***************************************************************************)
SemanticType == [Output |-> 0, Input |-> 1, Prompt |-> 2]

Intensity == [Normal |-> 0, Bold |-> 1, Half |-> 2]

Underline == [None |-> 0, Single |-> 1, Double |-> 2, Curly |-> 3,
              Dotted |-> 4, Dashed |-> 5]

Blink == [None |-> 0, Slow |-> 1, Rapid |-> 2]

EnumValues(e) == {e[k] : k \in DOMAIN e}

(***************************************************************************)
(* macro bitfield!: getters and setters                                    *)
(***************************************************************************)
\* first form: one bit
bitfield_get_bool(r, bitnum) ==
    BitAnd(r.attributes, Shl(1, bitnum)) = Shl(1, bitnum)

bitfield_set_bool(r, bitnum, value) ==
    LET attr_value == IF value THEN Shl(1, bitnum) ELSE 0
    IN [r EXCEPT !.attributes =
            BitOr(BitAnd(r.attributes, BitNot(Shl(1, bitnum))), attr_value)]

\* third form: an enum in a range of bits
bitfield_get_enum(r, bitmask, bitshift) ==
    BitAnd(Shr(r.attributes, bitshift), bitmask)

\* the setter without `self.attributes & clear`
bitfield_set_enum_no_clear(r, value, bitmask, bitshift) ==
    [r EXCEPT !.attributes = BitOr(r.attributes, Shl(BitAnd(value, bitmask), bitshift))]

bitfield_set_enum(r, value, bitmask, bitshift) ==
    LET clear == BitNot(Shl(bitmask, bitshift))
        attr_value == Shl(BitAnd(value, bitmask), bitshift)
    IN [r EXCEPT !.attributes = BitOr(BitAnd(r.attributes, clear), attr_value)]

intensity(r) == bitfield_get_enum(r, 3, 0)

set_intensity(r, v) == bitfield_set_enum(r, v, 3, 0)

underline(r) == bitfield_get_enum(r, 7, 2)

set_underline(r, v) == bitfield_set_enum(r, v, 7, 2)

blink(r) == bitfield_get_enum(r, 3, 5)

set_blink(r, v) == bitfield_set_enum(r, v, 3, 5)

italic(r) == bitfield_get_bool(r, 7)

set_italic(r, v) == bitfield_set_bool(r, 7, v)

reverse(r) == bitfield_get_bool(r, 8)

set_reverse(r, v) == bitfield_set_bool(r, 8, v)

strikethrough(r) == bitfield_get_bool(r, 9)

set_strikethrough(r, v) == bitfield_set_bool(r, 9, v)

invisible(r) == bitfield_get_bool(r, 10)

set_invisible(r, v) == bitfield_set_bool(r, 10, v)

wrapped(r) == bitfield_get_bool(r, 11)

set_wrapped(r, v) == bitfield_set_bool(r, 11, v)

overline(r) == bitfield_get_bool(r, 12)

set_overline(r, v) == bitfield_set_bool(r, 12, v)

semantic_type(r) == bitfield_get_enum(r, 3, 13)

set_semantic_type(r, v) == bitfield_set_enum(r, v, 3, 13)

(***************************************************************************)
(* CellAttributes                                                          *)
(***************************************************************************)
blank ==
    [attributes |-> 0, foreground |-> ColorDefault,
     background |-> ColorDefault, fat |-> None]

attribute_bits_equal_full(a, b) == a = b

attribute_bits_equal(a, b) == a.attributes = b.attributes

\* #[derive(PartialEq)] on CellAttributes and FatAttributes: field by field;
\* Option<Box<_>>, Vec<Box<_>> and Arc<_> compare their contents
CellAttributesEq(a, b) ==
    /\ a.attributes = b.attributes
    /\ a.foreground = b.foreground
    /\ a.background = b.background
    /\ is_some(a.fat) = is_some(b.fat)
    /\ is_some(a.fat) /\ is_some(b.fat) =>
          /\ unwrap(a.fat).hyperlink = unwrap(b.fat).hyperlink
          /\ unwrap(a.fat).image = unwrap(b.fat).image
          /\ unwrap(a.fat).underline_color = unwrap(b.fat).underline_color
          /\ unwrap(a.fat).foreground = unwrap(b.fat).foreground
          /\ unwrap(a.fat).background = unwrap(b.fat).background

NewFatAttributes ==
    [hyperlink |-> None, image |-> <<>>, underline_color |-> ColorDefault,
     foreground |-> ColorDefault, background |-> ColorDefault]

allocate_fat_attributes(r) ==
    IF is_none(r.fat) THEN [r EXCEPT !.fat = Some(NewFatAttributes)] ELSE r

deallocate_never(r) == r

deallocate_fat_attributes_if_none(r) ==
    LET deallocate ==
            IF is_some(r.fat)
            THEN LET fat == unwrap(r.fat)
                 IN /\ fat.image = <<>>
                    /\ is_none(fat.hyperlink)
                    /\ fat.underline_color = ColorDefault
                    /\ fat.foreground = ColorDefault
                    /\ fat.background = ColorDefault
            ELSE FALSE
    IN IF deallocate THEN [r EXCEPT !.fat = None] ELSE r

\* `if let Some(fat) = self.fat.as_mut() { fat.<field> = v }`
FatSetIfSome(r, field, v) ==
    IF is_some(r.fat)
    THEN [r EXCEPT !.fat = Some([unwrap(r.fat) EXCEPT ![field] = v])]
    ELSE r

\* `self.fat.as_mut().unwrap().<field> = v`
FatSet(r, field, v) == [r EXCEPT !.fat = Some([unwrap(r.fat) EXCEPT ![field] = v])]

\* set_foreground whose PaletteIndex arm leaves fat.foreground alone
set_foreground_keep_fat(r, foreground) ==
    IF foreground.kind = "Default"
    THEN deallocate_fat_attributes_if_none(
             FatSetIfSome([r EXCEPT !.foreground = ColorDefault],
                          "foreground", ColorDefault))
    ELSE IF foreground.kind = "PaletteIndex"
    THEN deallocate_fat_attributes_if_none(
             [r EXCEPT !.foreground = PaletteIndex(foreground.v)])
    ELSE FatSet(allocate_fat_attributes([r EXCEPT !.foreground = ColorDefault]),
                "foreground", foreground)

\* set_foreground whose last arm leaves the inline slot alone
set_foreground_keep_inline(r, foreground) ==
    IF foreground.kind = "Default"
    THEN deallocate_fat_attributes_if_none(
             FatSetIfSome([r EXCEPT !.foreground = ColorDefault],
                          "foreground", ColorDefault))
    ELSE IF foreground.kind = "PaletteIndex"
    THEN deallocate_fat_attributes_if_none(
             FatSetIfSome([r EXCEPT !.foreground = PaletteIndex(foreground.v)],
                          "foreground", ColorDefault))
    ELSE FatSet(allocate_fat_attributes(r), "foreground", foreground)

set_foreground(r, foreground) ==
    IF foreground.kind = "Default"
    THEN deallocate_fat_attributes_if_none(
             FatSetIfSome([r EXCEPT !.foreground = ColorDefault],
                          "foreground", ColorDefault))
    ELSE IF foreground.kind = "PaletteIndex"
    THEN deallocate_fat_attributes_if_none(
             FatSetIfSome([r EXCEPT !.foreground = PaletteIndex(foreground.v)],
                          "foreground", ColorDefault))
    ELSE FatSet(allocate_fat_attributes([r EXCEPT !.foreground = ColorDefault]),
                "foreground", foreground)

foreground(r) ==
    IF is_some(r.fat) /\ unwrap(r.fat).foreground # ColorDefault
    THEN unwrap(r.fat).foreground
    ELSE SmallColorInto(r.foreground)

\* set_background writing the foreground fields
set_background_into_foreground(r, background) == set_foreground(r, background)

set_background(r, background) ==
    IF background.kind = "Default"
    THEN deallocate_fat_attributes_if_none(
             FatSetIfSome([r EXCEPT !.background = ColorDefault],
                          "background", ColorDefault))
    ELSE IF background.kind = "PaletteIndex"
    THEN deallocate_fat_attributes_if_none(
             FatSetIfSome([r EXCEPT !.background = PaletteIndex(background.v)],
                          "background", ColorDefault))
    ELSE FatSet(allocate_fat_attributes([r EXCEPT !.background = ColorDefault]),
                "background", background)

background(r) ==
    IF is_some(r.fat) /\ unwrap(r.fat).background # ColorDefault
    THEN unwrap(r.fat).background
    ELSE SmallColorInto(r.background)

set_hyperlink_keep_block(r, link) ==
    IF is_none(link) /\ is_none(r.fat)
    THEN r
    ELSE FatSet(allocate_fat_attributes(r), "hyperlink", link)

set_hyperlink(r, link) ==
    IF is_none(link) /\ is_none(r.fat)
    THEN r
    ELSE deallocate_fat_attributes_if_none(
             FatSet(allocate_fat_attributes(r), "hyperlink", link))

set_image(r, image) == FatSet(allocate_fat_attributes(r), "image", <<image>>)

clear_images(r) ==
    deallocate_fat_attributes_if_none(FatSetIfSome(r, "image", <<>>))

\* ImageCell::matches_placement
matches_placement(im, image_id, placement_id) ==
    im.image_id = image_id /\ im.placement_id = placement_id

\* Vec::retain
RECURSIVE retain_not_matching(_, _, _)
retain_not_matching(image, image_id, placement_id) ==
    IF image = <<>> THEN <<>>
    ELSE IF matches_placement(Head(image), image_id, placement_id)
         THEN retain_not_matching(Tail(image), image_id, placement_id)
         ELSE <<Head(image)>>
              \o retain_not_matching(Tail(image), image_id, placement_id)

detach_image_with_placement(r, image_id, placement_id) ==
    deallocate_fat_attributes_if_none(
        IF is_some(r.fat)
        THEN FatSet(r, "image",
                    retain_not_matching(unwrap(r.fat).image, image_id, placement_id))
        ELSE r)

\* [T]::binary_search_by(|probe| probe.z_index().cmp(&z_index)) on a list
\* sorted by z_index: the 0-based indices it may return.  With several
\* matches any one of them may be returned (Ok(idx)); with none, the
\* insertion point that keeps the list sorted (Err(idx)).
binary_search_by_z_index(image, z_index) ==
    LET matches == {i \in 1..Len(image) : image[i].z_index = z_index}
    IN IF matches # {}
       THEN {i - 1 : i \in matches}
       ELSE {Cardinality({i \in 1..Len(image) : image[i].z_index < z_index})}

\* attach_image that pushes the image at the end of the list
attach_image_push(r, image, idx) ==
    LET a == allocate_fat_attributes(r)
    IN FatSet(a, "image", Append(unwrap(a.fat).image, image))

\* attach_image, with idx the index the binary search returned; Vec::insert
\* (idx, x) takes a 0-based idx
attach_image(r, image, idx) ==
    LET a == allocate_fat_attributes(r)
        VecInsert(v, x) == SubSeq(v, 1, idx) \o <<x>> \o SubSeq(v, idx + 1, Len(v))
    IN FatSet(a, "image", VecInsert(unwrap(a.fat).image, image))

underline_color(r) ==
    IF is_some(r.fat) THEN unwrap(r.fat).underline_color ELSE ColorDefault

set_underline_color(r, c) ==
    IF c = ColorDefault /\ is_none(r.fat)
    THEN r
    ELSE deallocate_fat_attributes_if_none(
             FatSet(allocate_fat_attributes(r), "underline_color", c))

\* #[derive(Clone)]: a deep copy, field by field
clone(r) == r

clone_sgr_only_keep_semantic(r) ==
    LET res0 == [attributes |-> r.attributes, foreground |-> r.foreground,
                 background |-> r.background, fat |-> None]
        res1 == IF is_some(r.fat)
                   /\ (unwrap(r.fat).background # ColorDefault
                       \/ unwrap(r.fat).foreground # ColorDefault)
                THEN FatSet(FatSet(allocate_fat_attributes(res0),
                                   "foreground", unwrap(r.fat).foreground),
                            "background", unwrap(r.fat).background)
                ELSE res0
    IN set_underline_color(res1, underline_color(r))

clone_sgr_only(r) ==
    LET res0 == [attributes |-> r.attributes, foreground |-> r.foreground,
                 background |-> r.background, fat |-> None]
        res1 == IF is_some(r.fat)
                   /\ (unwrap(r.fat).background # ColorDefault
                       \/ unwrap(r.fat).foreground # ColorDefault)
                THEN FatSet(FatSet(allocate_fat_attributes(res0),
                                   "foreground", unwrap(r.fat).foreground),
                            "background", unwrap(r.fat).background)
                ELSE res0
        res2 == set_semantic_type(res1, SemanticType.Output)
    IN set_underline_color(res2, underline_color(r))

hyperlink(r) == IF is_some(r.fat) THEN unwrap(r.fat).hyperlink ELSE None

\* images(): None, or Some(copy of the list)
images(r) ==
    IF is_none(r.fat) THEN None
    ELSE IF unwrap(r.fat).image = <<>> THEN None
    ELSE Some(unwrap(r.fat).image)


(***************************************************************************)
(* UTF-8.  A &str is modelled by its bytes (a sequence of 0..255) and a    *)
(* char by its code point.                                                 *)
(***************************************************************************)
\* the bytes of the characters cs[lo..hi], halving the range; Utf8 is
\* char::encode_utf8
RECURSIVE Utf8Range(_, _, _)
Utf8Range(cs, lo, hi) ==
    LET Utf8(c) ==
            IF c < 128 THEN <<c>>
            ELSE IF c < 2048 THEN <<192 + (c \div 64), 128 + (c % 64)>>
            ELSE IF c < 65536
                 THEN <<224 + (c \div 4096), 128 + ((c \div 64) % 64),
                        128 + (c % 64)>>
            ELSE <<240 + (c \div 262144), 128 + ((c \div 4096) % 64),
                   128 + ((c \div 64) % 64), 128 + (c % 64)>>
        mid == (lo + hi) \div 2
    IN IF lo > hi THEN <<>>
       ELSE IF lo = hi THEN Utf8(cs[lo])
       ELSE Utf8Range(cs, lo, mid) \o Utf8Range(cs, mid + 1, hi)

Utf8Str(cs) == Utf8Range(cs, 1, Len(cs))

\* str::chars on valid UTF-8.  A byte that is not a continuation byte
\* (10xxxxxx) starts a character; DecodeAt(k) is the character whose
\* encoding starts at byte k of s.
Chars(s) ==
    LET IsCharStart(k) == s[k] < 128 \/ s[k] >= 192
        DecodeAt(k) ==
            IF s[k] < 128 THEN s[k]
            ELSE IF s[k] < 224 THEN (s[k] - 192) * 64 + (s[k + 1] - 128)
            ELSE IF s[k] < 240
                 THEN (s[k] - 224) * 4096 + (s[k + 1] - 128) * 64
                      + (s[k + 2] - 128)
            ELSE (s[k] - 240) * 262144 + (s[k + 1] - 128) * 4096
                 + (s[k + 2] - 128) * 64 + (s[k + 3] - 128)
        starts == SelectSeq([k \in 1..Len(s) |-> k], IsCharStart)
    IN [n \in 1..Len(starts) |-> DecodeAt(starts[n])]

(***************************************************************************)
(* Column width.  WcWidth::from_char and Presentation::for_grapheme live   *)
(* in other files of the crate (widechar_width.rs, emoji.rs); they are     *)
(* modelled on the characters below, as the specification and the tests of *)
(* cell.rs describe them.                                                  *)
(*   U+0000..U+001F, U+007F  control characters                            *)
(*   U+0301  COMBINING ACUTE ACCENT     U+FE0E / U+FE0F  VS15 / VS16       *)
(*   U+E0100 VARIATION SELECTOR-17      U+3000  IDEOGRAPHIC SPACE          *)
(*   U+00A9  COPYRIGHT SIGN             U+270C  VICTORY HAND               *)
(*   U+270A  RAISED FIST                U+1F57A MAN DANCING                *)
(***************************************************************************)
WcWidth_from_char(c) ==
    IF c < 32 \/ (c >= 127 /\ c < 160) THEN "NonPrint"
    ELSE IF c \in {769, 65038, 65039, 917760} THEN "Combining"
    ELSE IF c = 12288 THEN "Two"
    ELSE IF c \in {9994, 128378} THEN "WidenedIn9"
    ELSE "One"

width_unicode_9_or_later(w) ==
    IF w \in {"NonPrint", "Combining"} THEN 0
    ELSE IF w \in {"Two", "WidenedIn9"} THEN 2
    ELSE 1

width_unicode_8_or_earlier(w) ==
    IF w \in {"NonPrint", "Combining"} THEN 0
    ELSE IF w = "Two" THEN 2
    ELSE 1

\* Presentation::for_grapheme: <<presentation, Option<variation>>>.  A valid
\* variation sequence (base character and VS15 / VS16) names its variation;
\* otherwise the grapheme is Emoji when the default presentation of one of
\* its characters (U+270A, U+1F57A) is.
Presentation_for_grapheme(chars) ==
    IF Len(chars) = 2 /\ chars[1] \in {169, 9996} /\ chars[2] = 65038
    THEN <<"Text", Some("Text")>>
    ELSE IF Len(chars) = 2 /\ chars[1] \in {169, 9996} /\ chars[2] = 65039
    THEN <<"Text", Some("Emoji")>>
    ELSE IF \E k \in 1..Len(chars) : chars[k] \in {9994, 128378}
    THEN <<"Emoji", None>>
    ELSE <<"Text", None>>

LATEST_UNICODE_VERSION == 14

\* the sum of ws[lo..hi], halving the range
RECURSIVE SumRange(_, _, _)
SumRange(ws, lo, hi) ==
    IF lo > hi THEN 0
    ELSE IF lo = hi THEN ws[lo]
    ELSE LET mid == (lo + hi) \div 2
         IN SumRange(ws, lo, mid) + SumRange(ws, mid + 1, hi)

\* the sum without wrapping
SumWide(ws) == SumRange(ws, 1, Len(ws))

\* Iterator::sum::<u8>() in a build without overflow checks: the additions
\* wrap, so the result is the sum modulo 2^8
SumU8(ws) == SumWide(ws) % 256

Min(a, b) == IF a < b THEN a ELSE b

\* the per-character widths grapheme_column_width sums
char_widths(s, version) ==
    LET v == IF is_some(version) THEN unwrap(version) ELSE LATEST_UNICODE_VERSION
        chars == Chars(s)
    IN [k \in 1..Len(chars) |->
          IF v >= 9
          THEN width_unicode_9_or_later(WcWidth_from_char(chars[k]))
          ELSE width_unicode_8_or_earlier(WcWidth_from_char(chars[k]))]

\* Iterator::sum::<u8>() panics ("attempt to add with overflow") in a build
\* with overflow checks, which the profiles turn on with debug assertions
grapheme_column_width_panics(s, version, debug) ==
    debug /\ SumWide(char_widths(s, version)) > 255

\* the width without the `if version >= 14` arm
grapheme_column_width_no_presentation(s, version) ==
    Min(SumU8(char_widths(s, version)), 2)

\* s: the bytes of the string; version: Option<UnicodeVersion>
grapheme_column_width(s, version) ==
    LET v == IF is_some(version) THEN unwrap(version) ELSE LATEST_UNICODE_VERSION
        chars == Chars(s)
        width == SumU8([k \in 1..Len(chars) |->
                          IF v >= 9
                          THEN width_unicode_9_or_later(WcWidth_from_char(chars[k]))
                          ELSE width_unicode_8_or_earlier(WcWidth_from_char(chars[k]))])
        p == Presentation_for_grapheme(chars)
    IN IF v >= 14
       THEN IF p[2] = Some("Emoji") THEN 2
            ELSE IF p[2] = Some("Text") THEN 1
            ELSE IF p[1] = "Emoji" THEN 2
            ELSE Min(width, 2)
       ELSE Min(width, 2)

(***************************************************************************)
(* TeenyString.  The word `TeenyString(usize)` is modelled by its bytes in *)
(* memory order on the little-endian 64-bit target: WordBytes bytes, the   *)
(* last of which holds the most significant bits.                          *)
(***************************************************************************)
\* std::mem::size_of::<usize>() with target_pointer_width = "64"
WordBytes == 8

ZeroWord == [k \in 1..WordBytes |-> 0]

\* 0x80000000_00000000
marker_mask == [k \in 1..WordBytes |-> IF k = WordBytes THEN 128 ELSE 0]

\* 0xc0000000_00000000
double_wide_mask == [k \in 1..WordBytes |-> IF k = WordBytes THEN 192 ELSE 0]

WordAnd(a, b) == [k \in 1..WordBytes |-> BitAndN(a[k], b[k], 8)]

WordOr(a, b) == [k \in 1..WordBytes |-> BitOrN(a[k], b[k], 8)]

\* `ptr as usize` and back
RECURSIVE UsizeBytes(_, _)
UsizeBytes(n, k) == IF k = 0 THEN <<>> ELSE <<n % 256>> \o UsizeBytes(n \div 256, k - 1)

UsizeToWord(n) == UsizeBytes(n, WordBytes)

RECURSIVE BytesUsize(_)
BytesUsize(w) == IF w = <<>> THEN 0 ELSE Head(w) + 256 * BytesUsize(Tail(w))

WordToUsize(w) == BytesUsize(w)

is_marker_bit_set(word) == WordAnd(word, marker_mask) = marker_mask

is_double_width(word) == WordAnd(word, double_wide_mask) = double_wide_mask

set_marker_bit(word, width) ==
    IF width > 1 THEN WordOr(word, double_wide_mask) ELSE WordOr(word, marker_mask)

\* the de-fanging without the `b == 0x7f` test
Neutralize_without_del(s) ==
    IF s = <<>> \/ s = <<13, 10>> THEN <<32>>
    ELSE IF Len(s) = 1
         THEN IF s[1] < 32 THEN <<32>> ELSE s
    ELSE s

\* the de-fanging at the head of from_str; 32 is " ", 13 10 is "\r\n"
Neutralize(s) ==
    IF s = <<>> \/ s = <<13, 10>> THEN <<32>>
    ELSE IF Len(s) = 1
         THEN IF s[1] < 32 \/ s[1] = 127 THEN <<32>> ELSE s
    ELSE s

\* `width.unwrap_or_else(|| grapheme_column_width(s, None))`
from_str_width(s, width) ==
    IF is_some(width) THEN unwrap(width) ELSE grapheme_column_width(s, None)

\* std::ptr::copy_nonoverlapping(bytes, &mut word as *mut u8, len)
copy_nonoverlapping(bytes, word, len) ==
    [k \in 1..WordBytes |-> IF k <= len THEN bytes[k] ELSE word[k]]

\* the inline arm of from_str
from_str_inline(bytes, width) ==
    set_marker_bit(copy_nonoverlapping(bytes, ZeroWord, Len(bytes)), width)

\* `len <= std::mem::size_of::<usize>()`
fits_inline_or_equal(bytes) == Len(bytes) <= WordBytes

\* `len < std::mem::size_of::<usize>()`
fits_inline(bytes) == Len(bytes) < WordBytes

\* debug_assert!(width < 3) in the inline arm of from_str
from_str_panics(s, width, debug) ==
    /\ debug
    /\ fits_inline(Neutralize(s))
    /\ ~(from_str_width(Neutralize(s), width) < 3)

(***************************************************************************)
(* The heap.  A block is unused, live or freed; a freed block keeps its    *)
(* stale contents.  ty is the type the block was allocated as, freedAs the *)
(* type it was released as, frees the number of releases since it was      *)
(* allocated.                                                              *)
(***************************************************************************)
UnusedBlock ==
    [state |-> "unused", ty |-> "", bytes |-> <<>>, width |-> 0,
     frees |-> 0, freedAs |-> ""]

\* Box::new(TeenyStringHeap { bytes: bytes.to_vec(), width })
NewBlock(bytes, width) ==
    [state |-> "live", ty |-> "TeenyStringHeap", bytes |-> bytes, width |-> width,
     frees |-> 0, freedAs |-> ""]

\* block addresses; Box<TeenyStringHeap> is at least 8-aligned, so the most
\* significant bit of a block address is clear
Addrs == {16 * k : k \in 1..MaxVals}

EmptyHeap == [a \in Addrs |-> UnusedBlock]

\* the allocator: the lowest address that holds no live block
Malloc(h) ==
    CHOOSE a \in Addrs :
        /\ h[a].state # "live"
        /\ \A b \in Addrs : b < a => h[b].state = "live"

\* from_str(s, width) on heap h: the word made and the heap after it
from_str(s, width, h) ==
    LET t == Neutralize(s)
        w == from_str_width(t, width)
    IN IF fits_inline(t)
       THEN [word |-> from_str_inline(t, w), heap |-> h]
       ELSE LET a == Malloc(h)
            IN [word |-> UsizeToWord(a), heap |-> [h EXCEPT ![a] = NewBlock(t, w)]]

\* 0x80000000_00000020
space == [k \in 1..WordBytes |-> IF k = 1 THEN 32 ELSE IF k = WordBytes THEN 128 ELSE 0]

\* from_char(c), s being the UTF-8 encoding of c
from_char(s, h) == from_str(s, None, h)

\* `(*heap)` for the word of a heap value
Deref(word, h) == h[WordToUsize(word)]

TeenyString_width(word, h) ==
    IF is_marker_bit_set(word)
    THEN IF is_double_width(word) THEN 2 ELSE 1
    ELSE Deref(word, h).width

\* inline: the first len bytes of the word, len the position of the first
\* zero byte among the first WordBytes - 1, or WordBytes - 1
as_bytes(word, h) ==
    LET bytes == SubSeq(word, 1, WordBytes - 1)
        zeros == {k \in 1..Len(bytes) : bytes[k] = 0}
        len == IF zeros = {} THEN WordBytes - 1
               ELSE (CHOOSE k \in zeros : \A m \in zeros : k <= m) - 1
    IN IF is_marker_bit_set(word) THEN SubSeq(bytes, 1, len)
       ELSE Deref(word, h).bytes

\* str(): the same bytes, read as UTF-8
TeenyString_str(word, h) == as_bytes(word, h)

\* a clone that copies the word, as #[derive(Clone)] would
clone_copy_word(word, h) == [word |-> word, heap |-> h]

\* impl Clone for TeenyString: the word made and the heap after it
TeenyString_clone(word, h) ==
    IF is_marker_bit_set(word)
    THEN [word |-> word, heap |-> h]
    ELSE from_str(TeenyString_str(word, h), None, h)

\* impl Drop for TeenyString: the heap after `Box::from_raw(self.0 as *mut
\* usize as *mut Vec<u8>)` is dropped
TeenyString_drop(word, h) ==
    IF ~is_marker_bit_set(word)
    THEN [h EXCEPT ![WordToUsize(word)] =
             [@ EXCEPT !.state = "freed", !.frees = @ + 1, !.freedAs = "Vec<u8>"]]
    ELSE h

\* serialize_teenystring: the string handed to the serializer
serialize_teenystring(word, h) == as_bytes(word, h)

\* a deserializer that takes every text to be one column wide
deserialize_width_one(text, h) == from_str(text, Some(1), h)

\* deserialize_teenystring: the word made from the deserialized string and
\* the heap after it
deserialize_teenystring(text, h) == from_str(text, None, h)

\* impl PartialEq for TeenyString
TeenyString_eq(a, b, h) == as_bytes(a, h) = as_bytes(b, h)

(***************************************************************************)
(* State of the attribute record machine (Spec, SpecImages).               *)
(*   attrs    the CellAttributes record under mutation                     *)
(*   nbitops  number of bitfield setter calls made so far                  *)
(*   nattach  number of images handed to set_image / attach_image so far;  *)
(*            the n-th image carries image_id n                            *)
(*   lastOp   the last operation applied to attrs, when it is one of       *)
(*            TrackedOps; "other" otherwise                                *)
(* State of the comparison of two records (SpecEq).                        *)
(*   recA, recB  the two records                                           *)
(*   cmp         None, or Some of the two results of comparing them        *)
(* State of the grapheme storage machine (SpecText).                       *)
(*   input    the string (its bytes) the constructors are called with      *)
(*   debug_assertions  whether the build checks debug_assert!              *)
(*   vals     the live TeenyString values: slot -> Option of               *)
(*            [word, how, warg]; how names the constructor and warg is the *)
(*            width argument it was given                                  *)
(*   heap     address -> block                                             *)
(*   crashed  "none", "panic" after a failed debug_assert!, or "corrupt"   *)
(*            after a release with the wrong layout damaged the allocator  *)
(* State of the width resolver (SpecWidth), which also uses input,         *)
(* debug_assertions and crashed.                                           *)
(*   version  the Option<UnicodeVersion> grapheme_column_width is given    *)
(*   colw     None, or Some of the width it returned                       *)
(***************************************************************************)
VARIABLES attrs, nbitops, nattach, lastOp, recA, recB, cmp,
          input, debug_assertions, vals, heap, crashed, version, colw

attrVars == <<attrs, nbitops, nattach, lastOp>>

eqVars == <<recA, recB, cmp>>

textVars == <<input, debug_assertions, vals, heap, crashed>>

widthVars == <<version, colw>>

vars == <<attrVars, eqVars, textVars, widthVars>>

PlacementIds == {None, Some(1)}

\* the image handed to the next set_image / attach_image call
NewImages ==
    {[image_id |-> nattach + 1, placement_id |-> p, z_index |-> z] :
        p \in PlacementIds, z \in {1, 3, 5}}

TrackedOps == {"set_hyperlink", "clone", "clone_sgr_only"}

Track(op) == IF op \in TrackedOps THEN op ELSE "other"

InitAttrs ==
    /\ attrs = blank
    /\ nbitops = 0
    /\ nattach = 0
    /\ lastOp = "blank"

InitEqIdle ==
    /\ recA = blank
    /\ recB = blank
    /\ cmp = None

InitTextIdle ==
    /\ input = <<>>
    /\ debug_assertions = FALSE
    /\ vals = [i \in 1..MaxVals |-> None]
    /\ heap = EmptyHeap
    /\ crashed = "none"

InitWidthIdle ==
    /\ version = None
    /\ colw = None

Init ==
    /\ InitAttrs
    /\ InitEqIdle
    /\ InitTextIdle
    /\ InitWidthIdle

BitStep(r, op) ==
    /\ nbitops < MaxBitOps
    /\ attrs' = r
    /\ nbitops' = nbitops + 1
    /\ lastOp' = Track(op)
    /\ UNCHANGED <<nattach, eqVars, textVars, widthVars>>

Step(r, op) ==
    /\ attrs' = r
    /\ lastOp' = Track(op)
    /\ UNCHANGED <<nbitops, nattach, eqVars, textVars, widthVars>>

SetIntensity == \E v \in EnumValues(Intensity) : BitStep(set_intensity(attrs, v), "set_intensity")

SetUnderline == \E v \in EnumValues(Underline) : BitStep(set_underline(attrs, v), "set_underline")

SetBlink == \E v \in EnumValues(Blink) : BitStep(set_blink(attrs, v), "set_blink")

SetItalic == \E v \in BOOLEAN : BitStep(set_italic(attrs, v), "set_italic")

SetReverse == \E v \in BOOLEAN : BitStep(set_reverse(attrs, v), "set_reverse")

SetStrikethrough == \E v \in BOOLEAN : BitStep(set_strikethrough(attrs, v), "set_strikethrough")

SetInvisible == \E v \in BOOLEAN : BitStep(set_invisible(attrs, v), "set_invisible")

SetWrapped == \E v \in BOOLEAN : BitStep(set_wrapped(attrs, v), "set_wrapped")

SetOverline == \E v \in BOOLEAN : BitStep(set_overline(attrs, v), "set_overline")

SetSemanticType == \E v \in EnumValues(SemanticType) : BitStep(set_semantic_type(attrs, v), "set_semantic_type")

SetForeground == \E c \in ColorArgs : Step(set_foreground(attrs, c), "set_foreground")

SetBackground == \E c \in ColorArgs : Step(set_background(attrs, c), "set_background")

SetUnderlineColor == \E c \in ColorArgs : Step(set_underline_color(attrs, c), "set_underline_color")

SetHyperlink == \E l \in LinkArgs : Step(set_hyperlink(attrs, l), "set_hyperlink")

SetImage(bound) ==
    /\ nattach < bound
    /\ \E im \in NewImages : attrs' = set_image(attrs, im)
    /\ nattach' = nattach + 1
    /\ lastOp' = Track("set_image")
    /\ UNCHANGED <<nbitops, eqVars, textVars, widthVars>>

AttachImage(bound) ==
    /\ nattach < bound
    /\ \E im \in NewImages :
          LET list == unwrap(allocate_fat_attributes(attrs).fat).image
          IN \E idx \in binary_search_by_z_index(list, im.z_index) :
                attrs' = attach_image(attrs, im, idx)
    /\ nattach' = nattach + 1
    /\ lastOp' = Track("attach_image")
    /\ UNCHANGED <<nbitops, eqVars, textVars, widthVars>>

ClearImages == Step(clear_images(attrs), "clear_images")

DetachImageWithPlacement ==
    \E id \in 1..nattach, p \in PlacementIds :
        Step(detach_image_with_placement(attrs, id, p), "detach_image_with_placement")

\* the copy becomes the record under mutation
Clone == Step(clone(attrs), "clone")

CloneSgrOnly == Step(clone_sgr_only(attrs), "clone_sgr_only")

Next ==
    \/ SetIntensity
    \/ SetUnderline
    \/ SetBlink
    \/ SetItalic
    \/ SetReverse
    \/ SetStrikethrough
    \/ SetInvisible
    \/ SetWrapped
    \/ SetOverline
    \/ SetSemanticType
    \/ SetForeground
    \/ SetBackground
    \/ SetUnderlineColor
    \/ SetHyperlink
    \/ SetImage(MaxAttach)
    \/ AttachImage(MaxAttach)
    \/ ClearImages
    \/ DetachImageWithPlacement
    \/ Clone
    \/ CloneSgrOnly

\* every public operation of CellAttributes, from blank()
Spec == Init /\ [][Next]_vars

NextImages ==
    \/ SetImage(MaxAttachImages)
    \/ AttachImage(MaxAttachImages)
    \/ ClearImages
    \/ DetachImageWithPlacement
    \/ SetHyperlink

\* the image operations, and set_hyperlink to keep the overflow block when
\* the list empties, with longer image lists
SpecImages == Init /\ [][NextImages]_vars

(***************************************************************************)
(* SpecEq: two records, each built from blank() by setters, are compared   *)
(* with attribute_bits_equal and with ==.                                  *)
(***************************************************************************)
PairRecords ==
    {set_hyperlink(set_foreground(set_italic(set_intensity(blank, i), b), c), l) :
        i \in EnumValues(Intensity), b \in BOOLEAN, c \in ColorArgs, l \in LinkArgs}

InitEq ==
    /\ InitAttrs
    /\ InitTextIdle
    /\ InitWidthIdle
    /\ recA \in PairRecords
    /\ recB \in PairRecords
    /\ cmp = None

Compare ==
    /\ cmp = None
    /\ cmp' = Some([bits_equal |-> attribute_bits_equal(recA, recB),
                    eq |-> CellAttributesEq(recA, recB)])
    /\ UNCHANGED <<attrVars, recA, recB, textVars, widthVars>>

SpecEq == InitEq /\ [][Compare]_vars

(***************************************************************************)
(* SpecBits: one bitfield setter is called on a record whose packed word   *)
(* holds any values of the ten fields.                                     *)
(***************************************************************************)
\* the flags set in the starting word: none, one of the six, or all six
FlagSets == {{}} \cup {{b} : b \in 7..12} \cup {7..12}

\* packed words the ten setters build from blank(): every value of the
\* four enum fields with the flags of FlagSets
BitRecords ==
    {set_semantic_type(set_overline(set_wrapped(set_invisible(set_strikethrough(
        set_reverse(set_italic(set_blink(set_underline(set_intensity(blank,
            i), u), b), 7 \in fl), 8 \in fl), 9 \in fl), 10 \in fl),
            11 \in fl), 12 \in fl), st) :
        i \in EnumValues(Intensity), u \in EnumValues(Underline),
        b \in EnumValues(Blink), fl \in FlagSets,
        st \in EnumValues(SemanticType)}

\* a record without colors and overflow block holding any of the words, or
\* one with colors and an overflow block holding one of the words with every
\* enum field set to its last value
InitBits ==
    /\ attrs \in BitRecords
                 \cup {set_hyperlink(set_foreground(set_background(r,
                           PaletteIndex(1)), TrueColor(1)), Some("L1")) :
                       r \in {q \in BitRecords :
                                 /\ intensity(q) = Intensity.Half
                                 /\ underline(q) = Underline.Dashed
                                 /\ blink(q) = Blink.Rapid
                                 /\ semantic_type(q) = SemanticType.Prompt}}
    /\ nbitops = 0
    /\ nattach = 0
    /\ lastOp = "blank"
    /\ InitEqIdle
    /\ InitTextIdle
    /\ InitWidthIdle

NextBits ==
    \/ SetIntensity
    \/ SetUnderline
    \/ SetBlink
    \/ SetItalic
    \/ SetReverse
    \/ SetStrikethrough
    \/ SetInvisible
    \/ SetWrapped
    \/ SetOverline
    \/ SetSemanticType

SpecBits == InitBits /\ [][NextBits]_vars

(***************************************************************************)
(* SpecText: TeenyString values are made from one input string, cloned and *)
(* dropped.                                                                *)
(***************************************************************************)
\* the characters of the longer input strings: NUL, LF, CR, U+3000, U+E0100
Alphabet == {0, 10, 13, 12288, 917760}

\* every string of at most MaxChars characters of Alphabet, and every
\* one-byte string
Inputs ==
    {Utf8Str(cs) : cs \in UNION {[1..n -> Alphabet] : n \in 0..MaxChars}}
        \cup {<<b>> : b \in 0..127}

InitText ==
    /\ InitAttrs
    /\ InitEqIdle
    /\ InitWidthIdle
    /\ input \in Inputs
    /\ debug_assertions \in BOOLEAN
    /\ vals = [i \in 1..MaxVals |-> None]
    /\ heap = EmptyHeap
    /\ crashed = "none"

\* the slot a new value goes to: the lowest empty one
FreeSlot(i) ==
    /\ i \in 1..MaxVals
    /\ is_none(vals[i])
    /\ \A k \in 1..MaxVals : k < i => is_some(vals[k])

Made(i, res, how, warg) ==
    /\ vals' = [vals EXCEPT ![i] = Some([word |-> res.word, how |-> how, warg |-> warg])]
    /\ heap' = res.heap
    /\ UNCHANGED <<input, debug_assertions, crashed, attrVars, eqVars, widthVars>>

\* TeenyString::from_str(input, w): Cell::new_grapheme (w = None) and
\* Cell::new_grapheme_with_width (w = Some(width))
FromStr ==
    /\ crashed = "none"
    /\ \E i \in 1..MaxVals, w \in {None} \cup {Some(k) : k \in 0..MaxWidthArg} :
          /\ FreeSlot(i)
          /\ IF from_str_panics(input, w, debug_assertions)
             THEN /\ crashed' = "panic"
                  /\ UNCHANGED <<input, debug_assertions, vals, heap, attrVars, eqVars, widthVars>>
             ELSE Made(i, from_str(input, w, heap), "from_str", w)

\* TeenyString::from_char(c): Cell::new
FromChar ==
    /\ crashed = "none"
    /\ Len(Chars(input)) = 1
    /\ \E i \in 1..MaxVals :
          /\ FreeSlot(i)
          /\ Made(i, from_char(input, heap), "from_char", None)

\* TeenyString::space(): Cell::blank
Space ==
    /\ crashed = "none"
    /\ \E i \in 1..MaxVals :
          /\ FreeSlot(i)
          /\ Made(i, [word |-> space, heap |-> heap], "space", None)

\* slot j receives vals[i].clone()
CloneFrom(i, j) ==
    /\ crashed = "none"
    /\ is_some(vals[i])
    /\ FreeSlot(j)
    /\ Made(j, TeenyString_clone(unwrap(vals[i]).word, heap), "clone", None)

\* slot j receives vals[i], serialized and deserialized (feature use_serde)
SerdeFrom(i, j) ==
    /\ crashed = "none"
    /\ is_some(vals[i])
    /\ FreeSlot(j)
    /\ Made(j, deserialize_teenystring(
                   serialize_teenystring(unwrap(vals[i]).word, heap), heap),
            "deserialize", None)

\* The block was allocated as Box<TeenyStringHeap> and is released as
\* Box<Vec<u8>>, with another layout: undefined behaviour.  Either the
\* allocator takes the block back all the same, or it is damaged.
DropOf(i) ==
    /\ crashed = "none"
    /\ is_some(vals[i])
    /\ vals' = [vals EXCEPT ![i] = None]
    /\ heap' = TeenyString_drop(unwrap(vals[i]).word, heap)
    /\ IF is_marker_bit_set(unwrap(vals[i]).word)
       THEN crashed' = "none"
       ELSE crashed' \in {"none", "corrupt"}
    /\ UNCHANGED <<input, debug_assertions, attrVars, eqVars, widthVars>>

NextText ==
    \/ FromStr
    \/ FromChar
    \/ Space
    \/ \E i, j \in 1..MaxVals : CloneFrom(i, j)
    \/ \E i, j \in 1..MaxVals : SerdeFrom(i, j)
    \/ \E i \in 1..MaxVals : DropOf(i)

SpecText == InitText /\ [][NextText]_vars

(***************************************************************************)
(* SpecWidth: grapheme_column_width is called once with a string and a     *)
(* version.                                                                *)
(***************************************************************************)
\* a, U+00A9, U+0301, U+270A, U+270C, U+3000, U+FE0E, U+FE0F, U+1F57A
WidthAlphabet == {97, 169, 769, 9994, 9996, 12288, 65038, 65039, 128378}

\* every string of at most MaxWidthChars characters of WidthAlphabet, and
\* the runs of LongRun - 1 and of LongRun U+3000
WidthInputs ==
    {Utf8Str(cs) : cs \in UNION {[1..n -> WidthAlphabet] : n \in 0..MaxWidthChars}}
        \cup {Utf8Str([k \in 1..n |-> 12288]) : n \in {LongRun - 1, LongRun}}

VersionArgs == {None, Some(8), Some(9), Some(13), Some(14), Some(15)}

InitWidth ==
    /\ InitAttrs
    /\ InitEqIdle
    /\ input \in WidthInputs
    /\ debug_assertions \in BOOLEAN
    /\ vals = [i \in 1..MaxVals |-> None]
    /\ heap = EmptyHeap
    /\ crashed = "none"
    /\ version \in VersionArgs
    /\ colw = None

GraphemeColumnWidth ==
    /\ crashed = "none"
    /\ colw = None
    /\ IF grapheme_column_width_panics(input, version, debug_assertions)
       THEN /\ crashed' = "panic"
            /\ UNCHANGED colw
       ELSE /\ colw' = Some(grapheme_column_width(input, version))
            /\ UNCHANGED crashed
    /\ UNCHANGED <<input, debug_assertions, vals, heap, version, attrVars, eqVars>>

SpecWidth == InitWidth /\ [][GraphemeColumnWidth]_vars

(***************************************************************************)
(* Properties of the attribute record                                      *)
(***************************************************************************)
\* the five conditions under which the overflow record is needed
OverflowNeeded(r) ==
    \/ is_some(images(r))
    \/ is_some(hyperlink(r))
    \/ underline_color(r) # ColorDefault
    \/ (is_some(r.fat) /\ unwrap(r.fat).foreground # ColorDefault)
    \/ (is_some(r.fat) /\ unwrap(r.fat).background # ColorDefault)

\* C1: after any sequence of public operations from blank(), the overflow
\* record (fat) is present if and only if the image list is non-empty, or a
\* hyperlink is present, or the underline color, the overflow foreground or
\* the overflow background is not Default.
C1_FatIffNeeded == is_some(attrs.fat) <=> OverflowNeeded(attrs)

\* C1 witness: an image was attached and removed again, a hyperlink was
\* cleared last, and the record holds a palette color without a fat block.
C1_Witness ==
    /\ nattach > 0
    /\ lastOp = "set_hyperlink"
    /\ is_none(attrs.fat)
    /\ attrs.foreground = PaletteIndex(1)

\* C2 (as claimed): two attached images of equal z-index are stored in the
\* order they were attached (image_id n is the n-th image attached).
C2_InsertionOrderKept ==
    is_some(attrs.fat) =>
        LET image == unwrap(attrs.fat).image
        IN \A i, j \in 1..Len(image) :
              (i < j /\ image[i].z_index = image[j].z_index)
                  => image[i].image_id < image[j].image_id

\* C8: r.clone_sgr_only() has no hyperlink and no images, the same
\* foreground(), background() and underline_color() as r, semantic type
\* Output, and every other bitfield field equal to r's.
C8_CloneSgrOnly ==
    [][(lastOp' = "clone_sgr_only" /\ CloneSgrOnly) =>
          /\ is_none(hyperlink(attrs'))
          /\ is_none(images(attrs'))
          /\ foreground(attrs') = foreground(attrs)
          /\ background(attrs') = background(attrs)
          /\ underline_color(attrs') = underline_color(attrs)
          /\ semantic_type(attrs') = SemanticType.Output
          /\ intensity(attrs') = intensity(attrs)
          /\ underline(attrs') = underline(attrs)
          /\ blink(attrs') = blink(attrs)
          /\ italic(attrs') = italic(attrs)
          /\ reverse(attrs') = reverse(attrs)
          /\ strikethrough(attrs') = strikethrough(attrs)
          /\ invisible(attrs') = invisible(attrs)
          /\ wrapped(attrs') = wrapped(attrs)
          /\ overline(attrs') = overline(attrs)]_vars

\* C8 witness: clone_sgr_only has just produced a record that carries an
\* extended foreground, an underline color and a set bitfield bit.
C8_Witness ==
    /\ lastOp = "clone_sgr_only"
    /\ nattach > 0
    /\ foreground(attrs) = TrueColor(1)
    /\ background(attrs) = PaletteIndex(1)
    /\ underline_color(attrs) = PaletteIndex(1)
    /\ attrs.attributes # 0

\* C9: attribute_bits_equal(a, b) is true exactly when the packed bitfields
\* are equal, whatever the colors and the overflow contents; records with
\* equal bitfields and different hyperlinks are attribute_bits_equal and
\* not ==.
C9_BitsEqual ==
    is_some(cmp) =>
        /\ unwrap(cmp).bits_equal <=> (recA.attributes = recB.attributes)
        /\ (recA.attributes = recB.attributes /\ hyperlink(recA) # hyperlink(recB))
              => (unwrap(cmp).bits_equal /\ ~unwrap(cmp).eq)

\* C9 witness: two records with the same non-zero bitfield and two different
\* hyperlinks have been compared.
C9_Witness ==
    /\ is_some(cmp)
    /\ recA.attributes = recB.attributes
    /\ recA.attributes # 0
    /\ hyperlink(recA) = Some("L1")
    /\ hyperlink(recB) = Some("L2")
    /\ unwrap(cmp).bits_equal
    /\ ~unwrap(cmp).eq

\* C10: on a record without an overflow block, set_hyperlink(Some(link))
\* followed by set_hyperlink(None) gives a record without an overflow block
\* that is == to the record before the two calls (blank() from blank()), and
\* set_hyperlink(None) alone changes nothing and allocates nothing.
C10_HyperlinkRoundTrip ==
    is_none(attrs.fat) =>
        /\ \A l \in LinkArgs \ {None} :
              LET r1 == set_hyperlink(attrs, l)
                  r2 == set_hyperlink(r1, None)
              IN /\ hyperlink(r1) = l
                 /\ is_none(r2.fat)
                 /\ CellAttributesEq(r2, attrs)
                 /\ attrs = blank => r2 = blank
        /\ set_hyperlink(attrs, None) = attrs

\* C10 witness: a hyperlink was just cleared from a record that is not
\* blank, and the record has no overflow block.
C10_Witness ==
    /\ lastOp = "set_hyperlink"
    /\ is_none(attrs.fat)
    /\ attrs.attributes # 0
    /\ attrs.background = PaletteIndex(1)

(***************************************************************************)
(* Properties of the grapheme storage                                      *)
(***************************************************************************)
LiveVals == {i \in 1..MaxVals : is_some(vals[i])}

Val(i) == unwrap(vals[i])

\* the values that hold a heap block
HeapVals == {i \in LiveVals : ~is_marker_bit_set(Val(i).word)}

LiveBlocks == {a \in Addrs : heap[a].state = "live"}

\* made by from_str / from_char from the input
FromInput(i) == i \in LiveVals /\ Val(i).how \in {"from_str", "from_char"}

\* the inputs the claims call neutralized: "", "\r\n", one C0 or DEL byte
IsNeutralized(s) ==
    \/ s = <<>>
    \/ s = <<13, 10>>
    \/ (Len(s) = 1 /\ (s[1] \in 0..31 \/ s[1] = 127))

\* A grapheme cluster (UAX #29, as unicode_segmentation cuts them): one
\* character, or CR LF, or characters none of which is a control character
\* and all of which but the first are Extend characters.
IsGraphemeCluster(cs) ==
    /\ Len(cs) >= 1
    /\ \/ Len(cs) = 1
       \/ cs = <<13, 10>>
       \/ /\ \A k \in 1..Len(cs) : WcWidth_from_char(cs[k]) # "NonPrint"
          /\ \A k \in 2..Len(cs) : WcWidth_from_char(cs[k]) = "Combining"

\* C3 (as claimed): every stored value, inline or on the heap, reports a
\* width() of 1 or 2.
C3_WidthOneOrTwo ==
    \A i \in LiveVals : TeenyString_width(Val(i).word, heap) \in {1, 2}

\* C4 (as claimed): a neutralized input, with or without a caller-supplied
\* width, is stored as the text " " with width 1.
C4_NeutralizedWidthOne ==
    \A i \in LiveVals :
        (FromInput(i) /\ IsNeutralized(input)) =>
            /\ TeenyString_str(Val(i).word, heap) = <<32>>
            /\ TeenyString_width(Val(i).word, heap) = 1

\* C4 (amended): a neutralized input is stored as the text " "; its width is
\* 1 when no width is supplied or the supplied width is 0 or 1, and 2 when
\* the supplied width is 2 or more.
C4_NeutralizedSpace ==
    \A i \in LiveVals :
        (FromInput(i) /\ IsNeutralized(input)) =>
            /\ TeenyString_str(Val(i).word, heap) = <<32>>
            /\ TeenyString_width(Val(i).word, heap) =
                  IF is_some(Val(i).warg) /\ unwrap(Val(i).warg) >= 2 THEN 2 ELSE 1

\* C4 witness: "\r\n" was encoded with a supplied width of 2 and with none.
C4_Witness ==
    /\ input = <<13, 10>>
    /\ \E i \in LiveVals :
          /\ Val(i).how = "from_str"
          /\ Val(i).warg = Some(2)
          /\ TeenyString_str(Val(i).word, heap) = <<32>>
          /\ TeenyString_width(Val(i).word, heap) = 2
    /\ \E i \in LiveVals :
          /\ Val(i).how = "from_str"
          /\ Val(i).warg = None
          /\ TeenyString_width(Val(i).word, heap) = 1

\* C5: for a grapheme cluster g that is not neutralized, from_str(g).str()
\* is g; g is stored inline, without a heap block, when it is shorter than
\* the word, and in a heap block otherwise.
C5_RoundTrip ==
    /\ \A i \in LiveVals :
        (FromInput(i) /\ IsGraphemeCluster(Chars(input)) /\ ~IsNeutralized(input)) =>
            /\ TeenyString_str(Val(i).word, heap) = input
            /\ Len(input) < WordBytes => is_marker_bit_set(Val(i).word)
            /\ Len(input) >= WordBytes =>
                  /\ ~is_marker_bit_set(Val(i).word)
                  /\ Deref(Val(i).word, heap).state = "live"
    /\ Cardinality(LiveBlocks) = Cardinality(HeapVals)

\* C5 witness: an 11-byte grapheme cluster (U+3000 and two U+E0100) is read
\* back from the heap while a one-byte value is live too.
C5_Witness ==
    /\ input = Utf8Str(<<12288, 917760, 917760>>)
    /\ \E i \in HeapVals :
          /\ Val(i).how = "from_str"
          /\ TeenyString_str(Val(i).word, heap) = input
    /\ \E i \in LiveVals : is_marker_bit_set(Val(i).word)

\* a value appeared in slot j in this step
Appeared(j) == is_none(vals[j]) /\ is_some(vals'[j])

\* C6: no two live values hold the same heap block, and every heap value
\* holds a live block; a clone of an inline value is the same word and
\* allocates nothing, a clone of a heap value holds a newly allocated block.
C6_ExclusiveBlocks ==
    /\ [](/\ \A i, j \in HeapVals : i # j => Val(i).word # Val(j).word
          /\ \A i \in HeapVals : Deref(Val(i).word, heap).state = "live")
    /\ [][\A j \in 1..MaxVals :
            (Appeared(j) /\ unwrap(vals'[j]).how = "clone") =>
                \E i \in LiveVals :
                    IF is_marker_bit_set(Val(i).word)
                    THEN /\ unwrap(vals'[j]).word = Val(i).word
                         /\ heap' = heap
                    ELSE /\ ~is_marker_bit_set(unwrap(vals'[j]).word)
                         /\ unwrap(vals'[j]).word # Val(i).word
                         /\ heap[WordToUsize(unwrap(vals'[j]).word)].state # "live"
                         /\ heap'[WordToUsize(unwrap(vals'[j]).word)].state = "live"
                         /\ heap'[WordToUsize(unwrap(vals'[j]).word)].bytes
                               = Deref(Val(i).word, heap).bytes]_vars

\* C6 witness: a heap value and its clone are live, in two blocks.
C6_Witness ==
    /\ Cardinality(HeapVals) = 2
    /\ Cardinality(LiveBlocks) = 2
    /\ \E i \in HeapVals : Val(i).how = "clone"
    /\ \E i \in HeapVals : Val(i).how = "from_str"

\* C7 (as claimed): every released block was released once, as the type it
\* was allocated as, and no block stays allocated once every value is
\* dropped.
C7_ReleasedOnceAsAllocated ==
    /\ \A a \in Addrs :
          heap[a].state = "freed" => (heap[a].frees = 1 /\ heap[a].freedAs = heap[a].ty)
    /\ LiveVals = {} => LiveBlocks = {}

(***************************************************************************)
(* Properties of the width resolver                                        *)
(***************************************************************************)
\* `version.unwrap_or(LATEST_UNICODE_VERSION).0`
EffectiveVersion == IF is_some(version) THEN unwrap(version) ELSE LATEST_UNICODE_VERSION

VS15 == 65038

VS16 == 65039

\* characters with an emoji form: U+00A9, U+270C (default text
\* presentation), U+270A, U+1F57A (default emoji presentation)
EmojiBases == {169, 9996, 9994, 128378}

DefaultEmoji == {9994, 128378}

\* the bases for which <base, VS15> is a valid text variation sequence
TextVariationBases == {169, 9996}

\* the table width of a character at the effective version
TableWidth(c) ==
    IF EffectiveVersion >= 9
    THEN width_unicode_9_or_later(WcWidth_from_char(c))
    ELSE width_unicode_8_or_earlier(WcWidth_from_char(c))

WidthOfBase(cs, bases, w) ==
    (Len(cs) = 2 /\ cs[1] \in bases /\ cs[2] \in {VS15, VS16} /\ cs[2] = w)

\* C11 (as claimed): at version >= 14 a base emoji character followed by
\* U+FE0E has width 1; followed by U+FE0F, or alone with default emoji
\* presentation, width 2; alone with default text presentation, its table
\* width clamped to 2.
C11_PresentationWidth ==
    (is_some(colw) /\ EffectiveVersion >= 14) =>
        LET cs == Chars(input)
        IN /\ WidthOfBase(cs, EmojiBases, VS15) => unwrap(colw) = 1
           /\ WidthOfBase(cs, EmojiBases, VS16) => unwrap(colw) = 2
           /\ (Len(cs) = 1 /\ cs[1] \in DefaultEmoji) => unwrap(colw) = 2
           /\ (Len(cs) = 1 /\ cs[1] \in EmojiBases \ DefaultEmoji)
                 => unwrap(colw) = Min(TableWidth(cs[1]), 2)

\* C11 (amended): at version >= 14 a base emoji character followed by
\* U+FE0E has width 1 when the pair is a valid text variation sequence, and
\* width 2 when it is not and the character has default emoji presentation;
\* followed by U+FE0F, or alone with default emoji presentation, width 2;
\* alone with default text presentation, its table width clamped to 2.
C11_ValidSequenceWidth ==
    (is_some(colw) /\ EffectiveVersion >= 14) =>
        LET cs == Chars(input)
        IN /\ WidthOfBase(cs, TextVariationBases, VS15) => unwrap(colw) = 1
           /\ WidthOfBase(cs, DefaultEmoji \ TextVariationBases, VS15)
                 => unwrap(colw) = 2
           /\ WidthOfBase(cs, EmojiBases, VS16) => unwrap(colw) = 2
           /\ (Len(cs) = 1 /\ cs[1] \in DefaultEmoji) => unwrap(colw) = 2
           /\ (Len(cs) = 1 /\ cs[1] \in EmojiBases \ DefaultEmoji)
                 => unwrap(colw) = Min(TableWidth(cs[1]), 2)

\* C11 witness: U+270C U+FE0E was measured at the default version: width 1.
C11_Witness ==
    /\ input = Utf8Str(<<9996, VS15>>)
    /\ version = None
    /\ colw = Some(1)

\* C12 (as claimed): for every string and every version the call returns,
\* and returns 0, 1 or 2, also when the per-character widths sum to more
\* than 8 bits hold.
C12_WidthInRange ==
    /\ crashed # "panic"
    /\ is_some(colw) => unwrap(colw) \in {0, 1, 2}

\* C13 (as claimed): below version 14 the width is min(sum of the
\* per-character table widths, 2), selectors ignored, with the table of the
\* version; a character followed by U+FE0F has the character's table width.
C13_TableWidthBelow14 ==
    (is_some(colw) /\ EffectiveVersion < 14) =>
        LET cs == Chars(input)
        IN /\ unwrap(colw) = Min(SumWide([k \in 1..Len(cs) |-> TableWidth(cs[k])]), 2)
           /\ (Len(cs) = 2 /\ cs[2] = VS16) => unwrap(colw) = TableWidth(cs[1])

(***************************************************************************)
(* Properties of the setters                                               *)
(***************************************************************************)
\* C14: set_foreground, set_background, set_hyperlink and
\* set_underline_color each leave the packed bitfield and every other
\* getter among foreground(), background(), hyperlink(), images() and
\* underline_color() as they were, for every reachable record and argument.
C14_SettersFieldScoped ==
    /\ \A c \in ColorArgs :
          LET r == set_foreground(attrs, c)
          IN /\ r.attributes = attrs.attributes
             /\ background(r) = background(attrs)
             /\ hyperlink(r) = hyperlink(attrs)
             /\ images(r) = images(attrs)
             /\ underline_color(r) = underline_color(attrs)
    /\ \A c \in ColorArgs :
          LET r == set_background(attrs, c)
          IN /\ r.attributes = attrs.attributes
             /\ foreground(r) = foreground(attrs)
             /\ hyperlink(r) = hyperlink(attrs)
             /\ images(r) = images(attrs)
             /\ underline_color(r) = underline_color(attrs)
    /\ \A l \in LinkArgs :
          LET r == set_hyperlink(attrs, l)
          IN /\ r.attributes = attrs.attributes
             /\ foreground(r) = foreground(attrs)
             /\ background(r) = background(attrs)
             /\ images(r) = images(attrs)
             /\ underline_color(r) = underline_color(attrs)
    /\ \A c \in ColorArgs :
          LET r == set_underline_color(attrs, c)
          IN /\ r.attributes = attrs.attributes
             /\ foreground(r) = foreground(attrs)
             /\ background(r) = background(attrs)
             /\ hyperlink(r) = hyperlink(attrs)
             /\ images(r) = images(attrs)

\* C14 witness: a record with a set bit, a palette foreground, an extended
\* background, a hyperlink, an image and an underline color.
C14_Witness ==
    /\ attrs.attributes # 0
    /\ foreground(attrs) = PaletteIndex(1)
    /\ background(attrs) = TrueColor(1)
    /\ hyperlink(attrs) = Some("L2")
    /\ is_some(images(attrs))
    /\ underline_color(attrs) = TrueColor(1)

\* what C15 says of a color setter: g the getter's value after the call,
\* inline the inline slot after it, field the overflow field's name
ColorStored(r, c, g, inline, field) ==
    /\ g = c
    /\ IF c.kind \in {"Default", "PaletteIndex"}
       THEN /\ inline = c
            /\ is_some(r.fat) => unwrap(r.fat)[field] = ColorDefault
            /\ is_some(r.fat) => OverflowNeeded(r)
       ELSE /\ is_some(r.fat)
            /\ unwrap(r.fat)[field] = c
            /\ inline = ColorDefault

\* C15: after set_foreground(c), a Default or palette c is in the inline
\* slot with the overflow foreground Default (and the overflow block freed
\* if empty); any other c is in the overflow block with the inline slot
\* Default; foreground() returns c.  The same for set_background.
C15_ColorPlacement ==
    \A c \in ColorArgs :
        /\ LET r == set_foreground(attrs, c)
           IN ColorStored(r, c, foreground(r), r.foreground, "foreground")
        /\ LET r == set_background(attrs, c)
           IN ColorStored(r, c, background(r), r.background, "background")

\* C15 witness: a record with an extended foreground and a palette
\* background, kept in an overflow block that also holds a hyperlink.
C15_Witness ==
    /\ is_some(attrs.fat)
    /\ unwrap(attrs.fat).foreground = TrueColor(1)
    /\ attrs.background = PaletteIndex(1)
    /\ hyperlink(attrs) = Some("L1")
    /\ lastOp = "other"

Fields ==
    {"intensity", "underline", "blink", "italic", "reverse", "strikethrough",
     "invisible", "wrapped", "overline", "semantic_type"}

FieldValues(f) ==
    CASE f = "intensity" -> EnumValues(Intensity)
      [] f = "underline" -> EnumValues(Underline)
      [] f = "blink" -> EnumValues(Blink)
      [] f = "semantic_type" -> EnumValues(SemanticType)
      [] OTHER -> BOOLEAN

SetField(r, f, v) ==
    CASE f = "intensity" -> set_intensity(r, v)
      [] f = "underline" -> set_underline(r, v)
      [] f = "blink" -> set_blink(r, v)
      [] f = "italic" -> set_italic(r, v)
      [] f = "reverse" -> set_reverse(r, v)
      [] f = "strikethrough" -> set_strikethrough(r, v)
      [] f = "invisible" -> set_invisible(r, v)
      [] f = "wrapped" -> set_wrapped(r, v)
      [] f = "overline" -> set_overline(r, v)
      [] f = "semantic_type" -> set_semantic_type(r, v)

GetField(r, f) ==
    CASE f = "intensity" -> intensity(r)
      [] f = "underline" -> underline(r)
      [] f = "blink" -> blink(r)
      [] f = "italic" -> italic(r)
      [] f = "reverse" -> reverse(r)
      [] f = "strikethrough" -> strikethrough(r)
      [] f = "invisible" -> invisible(r)
      [] f = "wrapped" -> wrapped(r)
      [] f = "overline" -> overline(r)
      [] f = "semantic_type" -> semantic_type(r)

Bit(n, b) == (n \div Pow2(b)) % 2

\* the bits of the 16-bit word that the setter of f writes
Footprint(f) ==
    {b \in 0..15 :
        \E v \in FieldValues(f), w \in {0, 65535} :
            Bit(SetField([blank EXCEPT !.attributes = w], f, v).attributes, b)
                # Bit(w, b)}

\* C16: after set_X(v) the getter X() returns v, every other bitfield
\* getter returns what it did, the colors and the overflow block are
\* unchanged; the bit ranges of the ten fields do not overlap.
C16_BitfieldScoped ==
    /\ \A before \in {[g \in Fields |-> GetField(attrs, g)]} :
       \A f \in Fields : \A v \in FieldValues(f) :
          \A r \in {SetField(attrs, f, v)} :
             /\ GetField(r, f) = v
             /\ \A g \in Fields \ {f} : GetField(r, g) = before[g]
             /\ r.foreground = attrs.foreground
             /\ r.background = attrs.background
             /\ r.fat = attrs.fat
    /\ attrs = blank =>
          \A f, g \in Fields : f # g => Footprint(f) \cap Footprint(g) = {}

\* C16 witness: a setter has run on a record in which every one of the ten
\* fields is set and which has colors and an overflow block.
C16_Witness ==
    /\ nbitops = 1
    /\ \A f \in Fields :
          GetField(attrs, f) # (IF FieldValues(f) = BOOLEAN THEN FALSE ELSE 0)
    /\ is_some(attrs.fat)
    /\ attrs.background = PaletteIndex(1)

\* the inline slot and the overflow field a color is stored in
InlinePart(c) == IF c.kind \in {"Default", "PaletteIndex"} THEN c ELSE ColorDefault

FatPart(c) == IF c.kind \in {"Default", "PaletteIndex"} THEN ColorDefault ELSE c

\* the record built from what the getters of r return
Canonical(r) ==
    LET fat == [hyperlink |-> hyperlink(r),
                image |-> IF is_some(images(r)) THEN unwrap(images(r)) ELSE <<>>,
                underline_color |-> underline_color(r),
                foreground |-> FatPart(foreground(r)),
                background |-> FatPart(background(r))]
    IN [attributes |-> r.attributes,
        foreground |-> InlinePart(foreground(r)),
        background |-> InlinePart(background(r)),
        fat |-> IF fat = NewFatAttributes THEN None ELSE Some(fat)]

\* C20: the physical record is a function of the packed bitfield and of
\* what foreground(), background(), hyperlink(), images() and
\* underline_color() return, so two reachable records that agree on these
\* are ==; the inline slot and the overflow color of one field are never
\* both non-Default.
C20_PhysicalFromLogical ==
    /\ attrs = Canonical(attrs)
    /\ is_some(attrs.fat) =>
          /\ ~(attrs.foreground # ColorDefault
               /\ unwrap(attrs.fat).foreground # ColorDefault)
          /\ ~(attrs.background # ColorDefault
               /\ unwrap(attrs.fat).background # ColorDefault)

\* C20 witness: clone_sgr_only has just built a record with an extended
\* foreground in the overflow block and a palette background inline, from a
\* record that had an image attached at some point.
C20_Witness ==
    /\ lastOp = "clone_sgr_only"
    /\ nattach = 1
    /\ nbitops = 1
    /\ is_some(attrs.fat)
    /\ unwrap(attrs.fat).foreground = TrueColor(1)
    /\ attrs.background = PaletteIndex(1)
    /\ underline_color(attrs) = ColorDefault

(***************************************************************************)
(* Properties of the image list                                            *)
(***************************************************************************)
StoredImages == IF is_some(attrs.fat) THEN unwrap(attrs.fat).image ELSE <<>>

\* C18: after any sequence of set_image, attach_image,
\* detach_image_with_placement and clear_images calls the stored image list
\* is in ascending z-index order, and images() returns it in that order, or
\* None (never an empty list) when no image is attached.
C18_ImagesSorted ==
    /\ \A i \in 1..Len(StoredImages) - 1 :
          StoredImages[i].z_index <= StoredImages[i + 1].z_index
    /\ images(attrs) # Some(<<>>)
    /\ IF StoredImages = <<>>
       THEN images(attrs) = None
       ELSE images(attrs) = Some(StoredImages)

\* C18 witness: three images are stored, two of them with one z-index and
\* the third above them, next to a hyperlink.
C18_Witness ==
    /\ Len(StoredImages) = 3
    /\ StoredImages[1].z_index = StoredImages[2].z_index
    /\ StoredImages[2].z_index < StoredImages[3].z_index
    /\ StoredImages[3].image_id < StoredImages[1].image_id
    /\ is_some(hyperlink(attrs))

(***************************************************************************)
(* Properties of serialization and of clone                                *)
(***************************************************************************)
StrOf(i) == TeenyString_str(Val(i).word, heap)

WidthOf(i) == TeenyString_width(Val(i).word, heap)

\* slot j after the step
StrAfter(j) == TeenyString_str(unwrap(vals'[j]).word, heap')

WidthAfter(j) == TeenyString_width(unwrap(vals'[j]).word, heap')

\* C17 (as claimed), for the values made of a grapheme cluster: a
\* serialized and deserialized value has the text of the original and the
\* width grapheme_column_width(text, None).
C17_SerdeResolverWidth ==
    [][\A i, j \in 1..MaxVals :
          (IsGraphemeCluster(Chars(input)) /\ SerdeFrom(i, j)) =>
              /\ StrAfter(j) = StrOf(i)
              /\ WidthAfter(j) = grapheme_column_width(StrOf(i), None)]_vars

\* the width from_str stores for a resolver width g of a text of len bytes
StoredWidth(len, g) == IF len < WordBytes THEN (IF g > 1 THEN 2 ELSE 1) ELSE g

\* C17 (amended): a serialized and deserialized value is what from_str makes
\* of the original's text with no width given: the text, neutralized again,
\* and the width grapheme_column_width gives for it, not the original's,
\* with a resolver width of 0 stored as 1 when the text is shorter than the
\* word.
C17_SerdeRederivedWidth ==
    [][\A i, j \in 1..MaxVals :
          SerdeFrom(i, j) =>
              \A text \in {IF IsNeutralized(StrOf(i)) THEN <<32>> ELSE StrOf(i)} :
                  /\ StrAfter(j) = text
                  /\ WidthAfter(j) =
                        StoredWidth(Len(text), grapheme_column_width(text, None))]_vars

\* C17 witness: "a" stored with a supplied width of 2 came back from
\* serialization with width 1.
C17_Witness ==
    /\ input = <<97>>
    /\ \E i \in LiveVals :
          /\ Val(i).how = "from_str"
          /\ Val(i).warg = Some(2)
          /\ WidthOf(i) = 2
    /\ \E j \in LiveVals :
          /\ Val(j).how = "deserialize"
          /\ StrOf(j) = <<97>>
          /\ WidthOf(j) = 1

\* C19 (as claimed): v.clone() has the text and the width() of v, and
\* dropping a value leaves the text and the width() of every other value as
\* they were.
C19_ClonePreservesValue ==
    [][/\ \A i, j \in 1..MaxVals :
             CloneFrom(i, j) =>
                 /\ StrAfter(j) = StrOf(i)
                 /\ WidthAfter(j) = WidthOf(i)
                 /\ StrAfter(i) = StrOf(i)
                 /\ WidthAfter(i) = WidthOf(i)
       /\ \A i \in 1..MaxVals :
             DropOf(i) =>
                 \A k \in LiveVals \ {i} :
                     /\ StrAfter(k) = StrOf(k)
                     /\ WidthAfter(k) = WidthOf(k)]_vars


\* C21: two live values that compare equal with == have the same text and
\* the same width(), whichever constructors and width arguments made them.
C21_EqualImpliesSameWidth ==
    \A i, j \in LiveVals :
        TeenyString_eq(Val(i).word, Val(j).word, heap) =>
            /\ StrOf(i) = StrOf(j)
            /\ WidthOf(i) = WidthOf(j)

\* C22: a value made by from_str / from_char of an input whose neutralized
\* text has between 1 and WordBytes - 1 bytes reads back, with as_bytes,
\* as exactly those bytes.
C22_InlineLengthRecovered ==
    \A i \in LiveVals :
        (FromInput(i) /\ Len(Neutralize(input)) \in 1..(WordBytes - 1)) =>
            as_bytes(Val(i).word, heap) = Neutralize(input)

=============================================================================
